---- MODULE Spec2Model ----
(***************************************************************************)
(* Drag-and-drop helpers of src/module/helpers/dragdrop.ts:                *)
(*   - resolve_native_drop / convert_ref_to_native_drop, as operators over *)
(*     a small host world (game.items, game.actors, game.packs,            *)
(*     game.scenes, game.journals);                                        *)
(*   - enable_dropping, enable_dragging and their wrappers, as listeners   *)
(*     bound on a chain of nested DOM elements, with events delivered      *)
(*     element by element along the bubbling path.                         *)
(***************************************************************************)
EXTENDS Integers, Sequences, FiniteSets, TLC

\* ------------------------------------------------------------------------
\* Bounds
\* ------------------------------------------------------------------------
\* Document ids that payloads and refs may name: "1" .. ToString(MaxId).
MaxId == 2

\* Nesting depth of the elements: element 1 is the outermost, element e + 1
\* lies inside element e.
MaxDepth == 2
Elems == 1..MaxDepth

\* ------------------------------------------------------------------------
\* JavaScript values
\* ------------------------------------------------------------------------
\* A property that is missing (undefined), and the empty string.
Absent == "<undefined>"
Empty == ""

Ids == {ToString(n) : n \in 1..MaxId}
IdVals == Ids \cup {Absent, Empty}

\* Truthiness of a string-or-undefined property, as `a && b` tests it.
Truthy(v) == v # Absent /\ v # Empty

\* ------------------------------------------------------------------------
\* The host world.  An entity is told apart by where it lives, not by id.
\* ------------------------------------------------------------------------
Ent(kind, where, in1, in2, owner, id, type) ==
    [kind |-> kind, where |-> where, in1 |-> in1, in2 |-> in2,
     owner |-> owner, id |-> id, type |-> type]

\* undefined / null as the outcome of a lookup
NoEnt == Ent("-", "-", "-", "-", "-", "-", "-")
\* the outcome of a lookup that raised a TypeError
Thrown == Ent("TypeError", "-", "-", "-", "-", "-", "-")

ItemPack == "ip"
ActorPack == "ap"
MissingPack == "zz"
\* game.packs: the packs that exist
GamePacks == {ItemPack, ActorPack}
PackVals == GamePacks \cup {MissingPack, Absent, Empty}

\* game.items.get(id)
GameItem(id) ==
    IF id = "2" THEN Ent("Item", "world", "-", "-", "-", id, "mech_system") ELSE NoEnt

\* game.actors.get(id)
GameActor(id) ==
    IF id = "1" THEN Ent("Actor", "world", "-", "-", "-", id, "mech")
    ELSE IF id = "2" THEN Ent("Actor", "world", "-", "-", "-", id, "pilot")
    ELSE NoEnt

\* game.journals.get(id)
GameJournal(id) ==
    IF id = "1" THEN Ent("JournalEntry", "world", "-", "-", "-", id, "-") ELSE NoEnt

\* game.packs.get(pack).getDocument(id), for a pack that exists
PackDocument(pack, id) ==
    IF pack = ItemPack /\ id = "1" THEN Ent("Item", "pack", pack, "-", "-", id, "mech_weapon")
    ELSE IF pack = ActorPack /\ id = "1" THEN Ent("Actor", "pack", pack, "-", "-", id, "mech")
    ELSE NoEnt

\* game.scenes.get(scene)?.tokens.get(token)?.actor
\* Token 1 of scene 1 is unlinked: its actor is a synthetic copy of world
\* actor 1 with the same id.  Token 2 is linked: its actor is world actor 2.
TokenActor(scene, token) ==
    IF scene = "1" /\ token = "1" THEN Ent("Actor", "token", scene, token, "-", "1", "mech")
    ELSE IF scene = "1" /\ token = "2" THEN GameActor("2")
    ELSE NoEnt

\* The ids of the items embedded in an actor
OwnedItemIds(actor) ==
    IF actor.where = "world" /\ actor.id = "1" THEN {"1", "2"}
    ELSE IF actor.where = "world" /\ actor.id = "2" THEN {"1"}
    ELSE IF actor.where = "pack" THEN {"1"}
    ELSE IF actor.where = "token" THEN {"1"}
    ELSE {}

\* actor?.items.get(id): undefined for no actor; a document that is no actor
\* has no `items` collection, and `.get` on it raises.
ActorItem(actor, id) ==
    IF actor = NoEnt THEN NoEnt
    ELSE IF actor.kind # "Actor" THEN Thrown
    ELSE IF id \in OwnedItemIds(actor)
         THEN Ent("Item", actor.where, actor.in1, actor.in2, actor.id, id, "mech_weapon")
    ELSE NoEnt

\* game.packs.get(pack)?.getDocument(id)
GetDocumentOpt(pack, id) ==
    IF pack \in GamePacks THEN PackDocument(pack, id) ELSE NoEnt

\* game.packs.get(pack)!.getDocument(id): `!` checks nothing at run time
GetDocumentBang(pack, id) ==
    IF pack \in GamePacks THEN PackDocument(pack, id) ELSE Thrown

\* ------------------------------------------------------------------------
\* JSON text and parsed JSON values
\* ------------------------------------------------------------------------
NoRegName == [src |-> Absent, a1 |-> Absent, a2 |-> Absent]

\* A parsed JSON value: null, a number, or an object with these properties
\* (a property the object lacks reads as undefined).
JsObject(type, id, pack, actorId, tokenId, sceneId, reg_name, fallback_lid) ==
    [js |-> "object", type |-> type, id |-> id, pack |-> pack, actorId |-> actorId,
     tokenId |-> tokenId, sceneId |-> sceneId, reg_name |-> reg_name,
     fallback_lid |-> fallback_lid]
JsNull == [JsObject(Absent, Absent, Absent, Absent, Absent, Absent, NoRegName, Absent)
           EXCEPT !.js = "null"]
JsNumber == [JsNull EXCEPT !.js = "number"]

\* `if (!drop)`
JsTruthy(v) == v.js # "null"

\* The text/plain payload of a drag: the empty string, text that is no JSON
\* (tag tells such texts apart), or the JSON text of a value.
EmptyText == [kind |-> "empty", value |-> JsNull, tag |-> 0]
GarbageText == [kind |-> "garbage", value |-> JsNull, tag |-> 0]

\* JSON.stringify: properties that are undefined are left out, which is how
\* a JsObject already records them.
JSONstringify(v) == [kind |-> "json", value |-> v, tag |-> 0]

\* safe_json_parse: JSON.parse, with null for text that does not parse
safe_json_parse(text) ==
    IF text.kind = "json" THEN text.value ELSE JsNull

\* ------------------------------------------------------------------------
\* resolve_native_drop
\* ------------------------------------------------------------------------
Resolved(type, entity) == [type |-> type, entity |-> entity]
NullResult == Resolved("null", NoEnt)
Raised == Resolved("TypeError", NoEnt)

\* `if (x) return {type, entity: x}`, else fall to `return null`
ReturnIfExists(type, entity) ==
    IF entity = Thrown THEN Raised
    ELSE IF entity # NoEnt THEN Resolved(type, entity)
    ELSE NullResult

\* The item a drop of type "Item" names
ResolveItem(drop) ==
    IF Truthy(drop.pack) /\ Truthy(drop.actorId)
    THEN ActorItem(GetDocumentOpt(drop.pack, drop.actorId), drop.id)
    ELSE IF Truthy(drop.sceneId) /\ Truthy(drop.tokenId)
    THEN ActorItem(TokenActor(drop.sceneId, drop.tokenId), drop.id)
    ELSE IF Truthy(drop.actorId)
    THEN ActorItem(GameActor(drop.actorId), drop.id)
    ELSE IF Truthy(drop.pack)
    THEN GetDocumentBang(drop.pack, drop.id)
    ELSE GameItem(drop.id)

\* The actor a drop of type "Actor" names
ResolveActor(drop) ==
    IF Truthy(drop.pack)
    THEN GetDocumentBang(drop.pack, drop.id)
    ELSE IF Truthy(drop.sceneId) /\ Truthy(drop.actorId)
    THEN TokenActor(drop.sceneId, drop.tokenId)
    ELSE GameActor(drop.id)

\* The journal entry a drop of type "JournalEntry" names
ResolveJournal(drop) ==
    IF Truthy(drop.pack)
    THEN GetDocumentBang(drop.pack, drop.id)
    ELSE GameJournal(drop.id)

resolve_native_drop(event_data) ==
    LET drop == safe_json_parse(event_data) IN
    IF ~JsTruthy(drop) THEN NullResult
    ELSE IF drop.type = "Item" THEN ReturnIfExists("Item", ResolveItem(drop))
    ELSE IF drop.type = "Actor" THEN ReturnIfExists("Actor", ResolveActor(drop))
    ELSE IF drop.type = "JournalEntry" THEN ReturnIfExists("JournalEntry", ResolveJournal(drop))
    ELSE NullResult

\* ------------------------------------------------------------------------
\* convert_ref_to_native_drop
\* ------------------------------------------------------------------------
ItemTypes == {"mech_weapon", "mech_system"}
ActorTypes == {"mech", "pilot"}
is_item_type(type) == type \in ItemTypes
is_actor_type(type) == type \in ActorTypes

\* get_pack_id: the core compendium that holds documents of this type
get_pack_id(type) == IF is_item_type(type) THEN ItemPack ELSE ActorPack

\* FoundryReg.parse_reg_args: "src|a1|a2" split into its named parts
parse_reg_args(reg_name) ==
    [src |-> reg_name.src,
     comp_id |-> IF reg_name.src = "comp" THEN reg_name.a1 ELSE Absent,
     scene_id |-> IF reg_name.src \in {"scene", "scene_token"} THEN reg_name.a1 ELSE Absent,
     token_id |-> IF reg_name.src = "scene_token" THEN reg_name.a2 ELSE Absent,
     actor_id |-> IF reg_name.src \in {"comp_actor", "game_actor"} THEN reg_name.a1 ELSE Absent]

\* game.scenes.get(scene)?.tokens.get(token)?.actor.id
TokenActorId(scene, token) ==
    IF TokenActor(scene, token) = NoEnt THEN Absent ELSE TokenActor(scene, token).id

convert_ref_to_native_drop(ref) ==
    IF ~Truthy(ref.type) THEN JsNull
    ELSE IF ~is_item_type(ref.type) /\ ~is_actor_type(ref.type) THEN JsNull
    ELSE
      LET rn == parse_reg_args(ref.reg_name)
          type == IF is_item_type(ref.type) THEN "Item" ELSE "Actor"
          pack == IF rn.src = "comp_core" THEN get_pack_id(ref.type)
                  ELSE IF rn.src = "comp" THEN rn.comp_id
                  ELSE Absent
          sceneId == IF rn.src \in {"scene", "scene_token"} THEN rn.scene_id ELSE Absent
          tokenId == IF rn.src = "scene" THEN ref.id
                     ELSE IF rn.src = "scene_token" THEN rn.token_id
                     ELSE Absent
          actorId == IF rn.src \in {"comp_actor", "game_actor"} THEN rn.actor_id
                     ELSE IF rn.src = "scene_token" THEN TokenActorId(sceneId, tokenId)
                     ELSE Absent
          id == IF rn.src = "scene" THEN TokenActorId(sceneId, tokenId) ELSE ref.id
      IN JsObject(type, id, pack, actorId, tokenId, sceneId, NoRegName, Absent)

\* A RegRef as the object JSON carries: {id, type, reg_name, fallback_lid}
RegRef(type, id, reg_name) ==
    JsObject(type, id, Absent, Absent, Absent, Absent, reg_name, Empty)

\* is_ref: the value has a fallback_lid property
is_ref(v) == JsTruthy(v) /\ v.fallback_lid # Absent

\* The document a ref designates in its registry (FoundryReg.resolve looks in
\* the category of ref.type of the registry ref.reg_name names).
RefLocation(ref) ==
    LET rn == parse_reg_args(ref.reg_name) IN
    IF rn.src = "game" THEN (IF is_item_type(ref.type) THEN GameItem(ref.id) ELSE GameActor(ref.id))
    ELSE IF rn.src = "comp_core" THEN GetDocumentOpt(get_pack_id(ref.type), ref.id)
    ELSE IF rn.src = "comp" THEN GetDocumentOpt(rn.comp_id, ref.id)
    ELSE IF rn.src = "comp_actor"
         THEN (IF GetDocumentOpt(ActorPack, rn.actor_id).kind = "Actor"
               THEN ActorItem(GetDocumentOpt(ActorPack, rn.actor_id), ref.id) ELSE NoEnt)
    ELSE IF rn.src = "game_actor" THEN ActorItem(GameActor(rn.actor_id), ref.id)
    ELSE IF rn.src = "scene" THEN TokenActor(rn.scene_id, ref.id)
    ELSE IF rn.src = "scene_token" THEN ActorItem(TokenActor(rn.scene_id, rn.token_id), ref.id)
    ELSE NoEnt

RefTarget(ref) ==
    IF is_ref(ref) /\ RefLocation(ref).type = ref.type THEN RefLocation(ref) ELSE NoEnt

\* The data attributes of an element that a ref is rebuilt from: data-id,
\* data-type and data-reg-name
Dataset(id, type, reg_name) == [id |-> id, type |-> type, reg_name |-> reg_name]
NoDataset == Dataset(Absent, Absent, NoRegName)

\* recreate_ref_from_element: the ref {id, type, reg_name, fallback_lid} the
\* element's data attributes name, or null when data-id or data-reg-name is
\* missing
recreate_ref_from_element(dataset) ==
    IF ~Truthy(dataset.id) \/ dataset.reg_name = NoRegName THEN JsNull
    ELSE RegRef(dataset.type, dataset.id, dataset.reg_name)

\* ------------------------------------------------------------------------
\* Strings that are searched: entry type names and data-type attributes
\* ------------------------------------------------------------------------
Chars(s) ==
    CASE s = "mech" -> <<"m", "e", "c", "h">>
      [] s = "mech_weapon" -> <<"m", "e", "c", "h", "_", "w", "e", "a", "p", "o", "n">>
      [] s = "mech_system" -> <<"m", "e", "c", "h", "_", "s", "y", "s", "t", "e", "m">>
      [] s = "pilot" -> <<"p", "i", "l", "o", "t">>
      [] s = "journal" -> <<"j", "o", "u", "r", "n", "a", "l">>
      [] s = "faction" -> <<"f", "a", "c", "t", "i", "o", "n">>
      [] s = Empty -> <<>>
      [] OTHER -> <<"u", "n", "d", "e", "f", "i", "n", "e", "d">>

\* String.prototype.includes: needle occurs in hay as a substring
Includes(hay, needle) ==
    \E i \in 0..(Len(hay) - Len(needle)) : SubSeq(hay, i + 1, i + Len(needle)) = needle

\* Array.prototype.join(" ")
RECURSIVE Join(_)
Join(types) ==
    IF types = <<>> THEN <<>>
    ELSE IF Len(types) = 1 THEN Chars(types[1])
    ELSE Chars(types[1]) \o <<" ">> \o Join(Tail(types))

\* dest[0].dataset.type: undefined without the attribute, else its text
NoAttr == [present |-> FALSE, chars |-> <<>>]
Attr(chars) == [present |-> TRUE, chars |-> chars]
\* `dest_type && ...`, `!dest_type`, `dest_type || ""`
AttrTruthy(a) == a.present /\ a.chars # <<>>

\* allowed_types: null / omitted, or an array of type names
NoTypes == [given |-> FALSE, types |-> <<>>]
Types(types) == [given |-> TRUE, types |-> types]

\* ------------------------------------------------------------------------
\* What enable_* binds on one element
\* ------------------------------------------------------------------------
\*   drop      which drop_handler enable_dropping got: "none" when the element
\*             was not set up, "generic", "ref" (enable_simple_ref_dropping)
\*             or "native" (enable_native_dropping)
\*   allow     the allow_drop argument: "absent", a predicate that "accept"s
\*             or "reject"s whatever it is asked, or the wrapper's predicate
\*   hover     whether a hover_handler was given
\*   dataType  the element's data-type attribute
\*   allowed   allowed_types of enable_native_dropping
\*   drag      "none", "generic" for enable_dragging, or "ref" for
\*             enable_simple_ref_dragging
\*   startStop whether a start_stop_func was given
\*   dataset   the data attributes a dragged ref is rebuilt from
Binding(drop, allow, hover, dataType, allowed, drag, startStop) ==
    [drop |-> drop, allow |-> allow, hover |-> hover, dataType |-> dataType,
     allowed |-> allowed, drag |-> drag, startStop |-> startStop,
     dataset |-> NoDataset]
NoBinding == Binding("none", "absent", FALSE, NoAttr, NoTypes, "none", FALSE)

\* What running the listeners of one element does to the event:
\*   calls    the calls made, in order
\*   prevent  event.preventDefault() was called
\*   stop     propagation was stopped (stopPropagation, or a jQuery handler
\*            returning false)
\*   spawn    the continuations left waiting at an `await`
\*   setData  the text given to dataTransfer.setData, if any
NoSet == [kind |-> "unset", value |-> JsNull, tag |-> 0]
Effect(calls, prevent, stop, spawn, setData) ==
    [calls |-> calls, prevent |-> prevent, stop |-> stop, spawn |-> spawn,
     setData |-> setData]
NoEffect == Effect(<<>>, FALSE, FALSE, <<>>, NoSet)

\* The rest of an async drop handler, waiting at its await
Continuation(kind, elem, data) == [kind |-> kind, elem |-> elem, data |-> data]

\* `if (!data) return`
NoData(data) == data.kind = "empty"

\* allow_drop of enable_simple_ref_dropping
RefAllowDrop(dataType, data) ==
    LET recon_ref == safe_json_parse(data) IN
    IF is_ref(recon_ref)
    THEN Includes((IF AttrTruthy(dataType) THEN dataType.chars ELSE <<>>), Chars(recon_ref.type))
    ELSE FALSE

\* allow_drop of enable_native_dropping
NativeAllowDrop(data) ==
    LET pdata == safe_json_parse(data) IN
    JsTruthy(pdata) /\ pdata.id # Absent /\ pdata.type # Absent

\* `!allow_drop || allow_drop(data, item, event)`
DropPermitted(b, data) ==
    CASE b.allow = "absent" -> TRUE
      [] b.allow = "accept" -> TRUE
      [] b.allow = "reject" -> FALSE
      [] b.allow = "ref" -> RefAllowDrop(b.dataType, data)
      [] b.allow = "native" -> NativeAllowDrop(data)

\* item.on("dragover", ...)
DragOverListener(b, data) ==
    IF NoData(data) THEN NoEffect
    ELSE IF DropPermitted(b, data)
    THEN Effect(<<"preventDefault">>, TRUE, TRUE, <<>>, NoSet)
    ELSE NoEffect

\* item.on("dragenter", ...)
DragEnterListener(b, data) ==
    IF NoData(data) THEN NoEffect
    ELSE IF DropPermitted(b, data)
    THEN Effect(<<"preventDefault">> \o (IF b.hover THEN <<"hover_enter">> ELSE <<>>),
                TRUE, TRUE, <<>>, NoSet)
    ELSE NoEffect

\* as DragLeaveListener, without asking allow_drop again
DragLeaveListenerUnchecked(b, data) ==
    IF ~b.hover THEN NoEffect
    ELSE IF NoData(data) THEN NoEffect
    ELSE Effect(<<"hover_leave">>, FALSE, FALSE, <<>>, NoSet)

\* item.on("dragleave", ...), bound only with a hover_handler
DragLeaveListener(b, data) ==
    IF ~b.hover THEN NoEffect
    ELSE IF NoData(data) THEN NoEffect
    ELSE IF DropPermitted(b, data)
    THEN Effect(<<"hover_leave">>, FALSE, FALSE, <<>>, NoSet)
    ELSE NoEffect

\* as RefDropHandler, were stopPropagation() called after the await
RefDropHandlerStopsLate(b, elem, data) ==
    LET recon_ref == safe_json_parse(data)
        dest_type == b.dataType
    IN  IF ~is_ref(recon_ref) THEN NoEffect
        ELSE IF AttrTruthy(dest_type) /\ ~Includes(dest_type.chars, Chars(recon_ref.type))
        THEN NoEffect
        ELSE Effect(<<>>, FALSE, FALSE, <<Continuation("ref", elem, data)>>, NoSet)

\* drop_handler of enable_simple_ref_dropping, up to its await
RefDropHandler(b, elem, data) ==
    LET recon_ref == safe_json_parse(data)
        dest_type == b.dataType
    IN  IF ~is_ref(recon_ref) THEN NoEffect
        ELSE IF AttrTruthy(dest_type) /\ ~Includes(dest_type.chars, Chars(recon_ref.type))
        THEN NoEffect
        ELSE Effect(<<"stopPropagation">>, FALSE, TRUE,
                    <<Continuation("ref", elem, data)>>, NoSet)

\* drop_handler of enable_native_dropping, up to its await
NativeDropHandler(b, elem, data) ==
    Effect(<<>>, FALSE, FALSE, <<Continuation("native", elem, data)>>, NoSet)

\* drop_handler(data, item, event)
DropHandler(b, elem, data) ==
    CASE b.drop = "ref" -> RefDropHandler(b, elem, data)
      [] b.drop = "native" -> NativeDropHandler(b, elem, data)
      [] OTHER -> NoEffect

\* as DropListener, without `if (!data) return`
DropListenerNoDataCheck(b, elem, data) ==
    LET h == DropHandler(b, elem, data) IN
    Effect(<<"drop_handler">> \o h.calls \o <<"preventDefault">>, TRUE, h.stop,
           h.spawn, NoSet)

\* item.on("drop", ...)
DropListener(b, elem, data) ==
    IF NoData(data) THEN NoEffect
    ELSE LET h == DropHandler(b, elem, data) IN
         Effect(<<"drop_handler">> \o h.calls \o <<"preventDefault">>, TRUE, h.stop,
                h.spawn, NoSet)

\* data_transfer_func(item, event) of enable_dragging: each element derives
\* its own payload
DataTransferFunc(elem) == [kind |-> "garbage", value |-> JsNull, tag |-> elem]

\* as RefDataTransferFunc, without `if (ref)`
RefDataTransferFuncUnchecked(b) ==
    LET ref == recreate_ref_from_element(b.dataset) IN
    JSONstringify(ref)

\* data_transfer_func of enable_simple_ref_dragging
RefDataTransferFunc(b) ==
    LET ref == recreate_ref_from_element(b.dataset) IN
    IF JsTruthy(ref) THEN JSONstringify(ref) ELSE EmptyText

\* data_transfer_func(item, event), as the element was set up
DragData(b, elem) ==
    IF b.drag = "ref" THEN RefDataTransferFunc(b) ELSE DataTransferFunc(elem)

\* as DragStartListener, without stopPropagation()
DragStartListenerBubbles(b, elem) ==
    Effect(<<"setData">> \o (IF b.startStop THEN <<"start">> ELSE <<>>),
           FALSE, FALSE, <<>>, DragData(b, elem))

\* item.on("dragstart", ...)
DragStartListener(b, elem) ==
    Effect(<<"setData", "stopPropagation", "stopImmediatePropagation">>
               \o (IF b.startStop THEN <<"start">> ELSE <<>>),
           FALSE, TRUE, <<>>, DragData(b, elem))

\* item.on("dragend", ...)
DragEndListener(b) ==
    Effect((IF b.startStop THEN <<"stop">> ELSE <<>>), FALSE, FALSE, <<>>, NoSet)

\* The listeners enable_dropping and enable_dragging bound on an element,
\* run for one event
Listeners(etype, b, elem, data) ==
    IF etype \in {"dragstart", "dragend"}
    THEN (IF b.drag = "none" THEN NoEffect
          ELSE IF etype = "dragstart" THEN DragStartListener(b, elem)
          ELSE DragEndListener(b))
    ELSE IF b.drop = "none" THEN NoEffect
    ELSE CASE etype = "dragover" -> DragOverListener(b, data)
           [] etype = "dragenter" -> DragEnterListener(b, data)
           [] etype = "dragleave" -> DragLeaveListener(b, data)
           [] etype = "drop" -> DropListener(b, elem, data)

\* The type enable_native_dropping gives a resolved entity
NativeType(resolved) ==
    IF resolved.type = "JournalEntry" THEN "journal" ELSE resolved.entity.type

\* dataset.type ?? (allowed_types ?? []).join(" ")
NativeDestType(b) ==
    IF b.dataType.present THEN b.dataType.chars ELSE Join(b.allowed.types)

\* `!dest_type || dest_type.includes(type)`
NativeAccepts(b, type) ==
    NativeDestType(b) = <<>> \/ Includes(NativeDestType(b), Chars(type))

\* enable_native_dropping's drop_handler after `await resolve_native_drop`
NativeResume(b, data) ==
    LET resolved == resolve_native_drop(data) IN
    IF resolved = Raised THEN Effect(<<"rejected">>, FALSE, FALSE, <<>>, NoSet)
    ELSE IF resolved = NullResult THEN NoEffect
    ELSE Effect(<<"stopPropagation">>
                    \o (IF NativeAccepts(b, NativeType(resolved)) THEN <<"on_drop">> ELSE <<>>),
                FALSE, TRUE, <<>>, NoSet)

\* enable_simple_ref_dropping's drop_handler after `await ...resolve(ctx, ref)`
RefResume(data) ==
    IF RefTarget(safe_json_parse(data)) # NoEnt
    THEN Effect(<<"on_drop">>, FALSE, FALSE, <<>>, NoSet)
    ELSE Effect(<<"console.error">>, FALSE, FALSE, <<>>, NoSet)

\* The code after the await of the handler that left continuation k
Resumed(b, k) ==
    IF k.kind = "native" THEN NativeResume(b, k.data) ELSE RefResume(k.data)

\* ------------------------------------------------------------------------
\* Inputs
\* ------------------------------------------------------------------------
DropTypes == {"Item", "Actor", "JournalEntry", "ActiveEffect", Absent}

\* Every NativeDrop object over the bounded ids
NativeDrops ==
    {JsObject(t, i, p, a, k, s, NoRegName, Absent) :
        t \in DropTypes, i \in IdVals, p \in PackVals, a \in IdVals, k \in IdVals, s \in IdVals}

RegSources == {"game", "comp_core", "comp", "comp_actor", "game_actor", "scene", "scene_token"}
RegNames ==
    {[src |-> s, a1 |-> Absent, a2 |-> Absent] : s \in {"game", "comp_core"}}
    \cup {[src |-> "comp", a1 |-> p, a2 |-> Absent] : p \in GamePacks \cup {MissingPack}}
    \cup {[src |-> s, a1 |-> a, a2 |-> Absent] : s \in {"comp_actor", "game_actor", "scene"}, a \in Ids}
    \cup {[src |-> "scene_token", a1 |-> a, a2 |-> b] : a \in Ids, b \in Ids}
RefTypes == ItemTypes \cup ActorTypes \cup {"faction", Absent}
RegRefs == {RegRef(t, i, rn) : t \in RefTypes, i \in Ids, rn \in RegNames}

DropTexts == {EmptyText, GarbageText, JSONstringify(JsNull), JSONstringify(JsNumber)}
             \cup {JSONstringify(d) : d \in NativeDrops}

\* ------------------------------------------------------------------------
\* State
\* ------------------------------------------------------------------------
VARIABLES
    call,     \* the last call of resolve_native_drop / convert_ref_to_native_drop
    bound,    \* bound[e]: what enable_* bound on element e
    drag,     \* the drag in progress: its payload, the element under the
              \* pointer, whether a drop is allowed there, its source element
    evt,      \* the event being dispatched, and the element it has reached
    pending,  \* continuations of async drop handlers waiting at their await
    last      \* what the listeners of the element reached last (or the
              \* continuation resumed last) did in the current drag

vars == <<call, bound, drag, evt, pending, last>>
dom == <<bound, drag, evt, pending, last>>

NoCall == [op |-> "none", data |-> EmptyText, ref |-> JsNull, drop |-> JsNull,
           result |-> NullResult]

NoDrag == [active |-> FALSE, data |-> EmptyText, over |-> 0, dropOk |-> FALSE,
           src |-> 0, dropped |-> FALSE]
NoEvt == [type |-> "none", target |-> 0, cur |-> 0, data |-> EmptyText,
          prevented |-> FALSE, ran |-> {}]
\* kind "deliver" / "resume"; elem, b: the element and what is bound on it;
\* etype, data: the event and the payload its dataTransfer held; calls: the
\* calls made; spawned: handlers left at an await; out: the payload the
\* dataTransfer holds afterwards; ran: the elements the event has reached;
\* ended: the event goes no further
NoLast == [kind |-> "none", elem |-> 0, etype |-> "none", data |-> EmptyText,
           calls |-> <<>>, spawned |-> 0, b |-> NoBinding, out |-> EmptyText,
           ran |-> {}, ended |-> FALSE]

InitDom ==
    /\ bound = [e \in Elems |-> NoBinding]
    /\ drag = NoDrag
    /\ evt = NoEvt
    /\ pending = <<>>
    /\ last = NoLast

\* A payload text handed to resolve_native_drop, and a ref handed to
\* convert_ref_to_native_drop, before the call
PayloadInput(event_data) == [NoCall EXCEPT !.op = "payload", !.data = event_data]
RefInput(ref) == [NoCall EXCEPT !.op = "ref", !.ref = ref]

\* resolve_native_drop(event_data)
ResolveNativeDrop ==
    /\ call.op = "payload"
    /\ call' = [call EXCEPT !.op = "resolve", !.result = resolve_native_drop(call.data)]
    /\ UNCHANGED dom

\* convert_ref_to_native_drop(ref)
ConvertRef ==
    /\ call.op = "ref"
    /\ call' = [call EXCEPT !.op = "convert", !.drop = convert_ref_to_native_drop(call.ref)]
    /\ UNCHANGED dom

\* The converted drop travels as JSON text and is resolved where it lands
ResolveConverted ==
    /\ call.op = "convert"
    /\ call' = [call EXCEPT !.op = "roundtrip",
                            !.data = JSONstringify(call.drop),
                            !.result = resolve_native_drop(JSONstringify(call.drop))]
    /\ UNCHANGED dom

InitResolve ==
    /\ call \in {PayloadInput(t) : t \in DropTexts} \cup {RefInput(r) : r \in RegRefs}
    /\ InitDom
NextResolve ==
    \/ ResolveNativeDrop
    \/ ConvertRef
    \/ ResolveConverted
SpecResolve == InitResolve /\ [][NextResolve]_vars

\* ------------------------------------------------------------------------
\* Binding listeners
\* ------------------------------------------------------------------------
Idle == evt.type = "none"

\* enable_dropping(items, drop_handler, allow_drop, hover_handler) on element e
BindDropping(e, drop, allow, hover, dataType, allowed) ==
    /\ Idle
    /\ bound[e].drop = "none"
    /\ bound' = [bound EXCEPT ![e] = [@ EXCEPT !.drop = drop, !.allow = allow,
                                               !.hover = hover, !.dataType = dataType,
                                               !.allowed = allowed]]
    /\ UNCHANGED <<call, drag, evt, pending, last>>

enable_dropping(e, allow, hover) ==
    BindDropping(e, "generic", allow, hover, NoAttr, NoTypes)

\* enable_simple_ref_dropping(items, on_drop, hover_handler) on element e,
\* which carries the attribute data-type = dataType
enable_simple_ref_dropping(e, hover, dataType) ==
    BindDropping(e, "ref", "ref", hover, dataType, NoTypes)

\* enable_native_dropping(items, on_drop, allowed_types, hover_handler)
enable_native_dropping(e, allowed, hover, dataType) ==
    BindDropping(e, "native", "native", hover, dataType, allowed)

\* enable_dragging(items, data_transfer_func, start_stop_func) on element e
enable_dragging(e, startStop) ==
    /\ Idle
    /\ bound[e].drag = "none"
    /\ bound' = [bound EXCEPT ![e] = [@ EXCEPT !.drag = "generic", !.startStop = startStop]]
    /\ UNCHANGED <<call, drag, evt, pending, last>>

\* enable_simple_ref_dragging(items, start_stop) on element e, which carries
\* the data attributes dataset
enable_simple_ref_dragging(e, dataset, startStop) ==
    /\ Idle
    /\ bound[e].drag = "none"
    /\ bound' = [bound EXCEPT ![e] = [@ EXCEPT !.drag = "ref", !.startStop = startStop,
                                               !.dataset = dataset]]
    /\ UNCHANGED <<call, drag, evt, pending, last>>

\* ------------------------------------------------------------------------
\* The browser: drags and the events it fires
\* ------------------------------------------------------------------------
Event(type, target, data) ==
    [type |-> type, target |-> target, cur |-> target, data |-> data,
     prevented |-> FALSE, ran |-> {}]

\* A drag that starts outside these elements (the host's sidebar, another
\* application) comes in with its payload
DragBegins(data) ==
    /\ Idle /\ ~drag.active /\ pending = <<>>
    /\ drag' = [NoDrag EXCEPT !.active = TRUE, !.data = data]
    /\ last' = NoLast
    /\ UNCHANGED <<call, bound, evt, pending>>

\* The user starts dragging draggable element e
FireDragStart(e) ==
    /\ Idle /\ ~drag.active /\ pending = <<>>
    /\ bound[e].drag # "none"
    /\ evt' = Event("dragstart", e, EmptyText)
    /\ last' = NoLast
    /\ UNCHANGED <<call, bound, drag, pending>>

\* The pointer comes over element e
FireDragEnter(e) ==
    /\ Idle /\ drag.active /\ ~drag.dropped /\ drag.over = 0
    /\ evt' = Event("dragenter", e, drag.data)
    /\ drag' = [drag EXCEPT !.over = e, !.dropOk = FALSE]
    /\ UNCHANGED <<call, bound, pending, last>>

\* The pointer stays over the element it is over
FireDragOver ==
    /\ Idle /\ drag.active /\ ~drag.dropped /\ drag.over # 0
    /\ evt' = Event("dragover", drag.over, drag.data)
    /\ UNCHANGED <<call, bound, drag, pending, last>>

\* The pointer leaves the element it is over
FireDragLeave ==
    /\ Idle /\ drag.active /\ ~drag.dropped /\ drag.over # 0
    /\ evt' = Event("dragleave", drag.over, drag.data)
    /\ drag' = [drag EXCEPT !.over = 0, !.dropOk = FALSE]
    /\ UNCHANGED <<call, bound, pending, last>>

\* The user releases where the last dragover was cancelled: the browser
\* fires drop there, and nowhere else
FireDrop ==
    /\ Idle /\ drag.active /\ ~drag.dropped /\ drag.over # 0 /\ drag.dropOk
    /\ evt' = Event("drop", drag.over, drag.data)
    /\ drag' = IF drag.src = 0 THEN NoDrag
               ELSE [drag EXCEPT !.over = 0, !.dropOk = FALSE, !.dropped = TRUE]
    /\ UNCHANGED <<call, bound, pending, last>>

\* A drag from one of these elements ends: dragend at its source
FireDragEnd ==
    /\ Idle /\ drag.active /\ drag.src # 0
    /\ evt' = Event("dragend", drag.src, drag.data)
    /\ drag' = NoDrag
    /\ UNCHANGED <<call, bound, pending, last>>

\* A drag from outside ends without a drop here
DragEnds ==
    /\ Idle /\ drag.active /\ drag.src = 0
    /\ drag' = NoDrag
    /\ UNCHANGED <<call, bound, evt, pending, last>>

\* What the browser does once the dispatch of an event is over
AfterDispatch(type, target, data, cancelled) ==
    CASE type = "dragover" -> [drag EXCEPT !.dropOk = cancelled]
      [] type = "dragstart" -> [NoDrag EXCEPT !.active = TRUE, !.data = data, !.src = target]
      [] OTHER -> drag

\* The event reaches the next element of its bubbling path and the listeners
\* bound there run.  Elements above the outermost one belong to the host,
\* whose own dragover handling cancels the event or not, as hostCancels has it.
DeliverTo(hostCancels) ==
    /\ evt.type # "none"
    /\ LET e == evt.cur
           eff == Listeners(evt.type, bound[e], e, evt.data)
           data == IF eff.setData = NoSet THEN evt.data ELSE eff.setData
           prevented == evt.prevented \/ eff.prevent
           ran == evt.ran \cup {e}
       IN  /\ last' = [kind |-> "deliver", elem |-> e, etype |-> evt.type,
                       data |-> evt.data, calls |-> eff.calls,
                       spawned |-> Len(eff.spawn), b |-> bound[e], out |-> data,
                       ran |-> ran, ended |-> eff.stop \/ e = 1]
           /\ pending' = pending \o eff.spawn
           /\ IF eff.stop
              THEN /\ evt' = NoEvt
                   /\ drag' = AfterDispatch(evt.type, evt.target, data, prevented)
              ELSE IF e = 1
              THEN /\ evt' = NoEvt
                   /\ \E host \in (IF evt.type = "dragover" THEN hostCancels ELSE {FALSE}) :
                          drag' = AfterDispatch(evt.type, evt.target, data, prevented \/ host)
              ELSE /\ evt' = [evt EXCEPT !.cur = e - 1, !.data = data,
                                         !.prevented = prevented, !.ran = ran]
                   /\ UNCHANGED drag
    /\ UNCHANGED <<call, bound>>

\* Delivery under a host that may cancel a dragover, and under one that
\* leaves dragover alone
Deliver == DeliverTo(BOOLEAN)
DeliverAlone == DeliverTo({FALSE})

\* The awaited promise of the i-th waiting handler settles and the handler
\* runs on; a stopPropagation it calls counts if its event is still under way
Resume(i) ==
    /\ i \in 1..Len(pending)
    /\ LET k == pending[i]
           eff == Resumed(bound[k.elem], k)
       IN  /\ last' = [kind |-> "resume", elem |-> k.elem, etype |-> "drop",
                       data |-> k.data, calls |-> eff.calls, spawned |-> 0,
                       b |-> bound[k.elem], out |-> k.data, ran |-> {},
                       ended |-> eff.stop]
           /\ pending' = SubSeq(pending, 1, i - 1) \o SubSeq(pending, i + 1, Len(pending))
           /\ evt' = IF eff.stop /\ evt.type = "drop" THEN NoEvt ELSE evt
    /\ UNCHANGED <<call, bound, drag>>

\* ------------------------------------------------------------------------
\* Inputs of the element specifications
\* ------------------------------------------------------------------------
AllowDropArgs == {"absent", "accept", "reject"}

\* Some JSON text that is neither a ref nor a native drop
OtherJson == JSONstringify(JsNumber)
GenericTexts == {EmptyText, GarbageText, OtherJson}

\* Payloads dragged over elements set up by enable_native_dropping: a
\* compendium item (mech_weapon), world actors (mech, pilot), a journal entry,
\* a world item that does not exist, an item of a pack that does not exist
NativeDrop(type, id, pack) ==
    JSONstringify(JsObject(type, id, pack, Absent, Absent, Absent, NoRegName, Absent))
NativeTexts ==
    {EmptyText, GarbageText,
     NativeDrop("Item", "1", ItemPack), NativeDrop("Actor", "1", Absent),
     NativeDrop("Actor", "2", Absent), NativeDrop("JournalEntry", "1", Absent),
     NativeDrop("Item", "1", Absent), NativeDrop("Item", "1", MissingPack)}
DataTypeAttrs == {NoAttr, Attr(<<>>), Attr(Chars("mech_weapon"))}
AllowedTypesArgs == {NoTypes, Types(<<>>), Types(<<"mech_weapon", "pilot">>)}

\* Payloads dragged over elements set up by enable_simple_ref_dropping: refs
\* to an item of world actor 1 (mech_weapon), to world actors 1 (mech) and 2
\* (pilot), a ref that resolves to nothing, and text that is no ref
GameRef(type, id) == JSONstringify(RegRef(type, id, [src |-> "game", a1 |-> Absent, a2 |-> Absent]))
RefTexts ==
    {EmptyText, OtherJson,
     JSONstringify(RegRef("mech_weapon", "1", [src |-> "game_actor", a1 |-> "1", a2 |-> Absent])),
     GameRef("mech", "1"), GameRef("pilot", "2"), GameRef("mech_weapon", "1")}

\* ------------------------------------------------------------------------
\* Specifications
\* ------------------------------------------------------------------------
Events ==
    \/ \E e \in Elems : FireDragEnter(e)
    \/ FireDragOver
    \/ FireDragLeave
    \/ FireDrop
    \/ Deliver

\* Elements set up by enable_dropping
InitElements == call = NoCall /\ InitDom
NextDrop ==
    \/ \E e \in Elems, allow \in AllowDropArgs, hover \in BOOLEAN : enable_dropping(e, allow, hover)
    \/ \E data \in GenericTexts : DragBegins(data)
    \/ DragEnds
    \/ Events
SpecDrop == InitElements /\ [][NextDrop]_vars

\* The same elements on a page where nothing else handles drag events
NextDropAlone ==
    \/ \E e \in Elems, allow \in AllowDropArgs, hover \in BOOLEAN : enable_dropping(e, allow, hover)
    \/ \E data \in GenericTexts : DragBegins(data)
    \/ DragEnds
    \/ \E e \in Elems : FireDragEnter(e)
    \/ FireDragOver
    \/ FireDragLeave
    \/ FireDrop
    \/ DeliverAlone
SpecDropAlone == InitElements /\ [][NextDropAlone]_vars

\* Elements set up by enable_native_dropping
NextNative ==
    \/ \E e \in Elems, allowed \in AllowedTypesArgs, dataType \in DataTypeAttrs :
           enable_native_dropping(e, allowed, FALSE, dataType)
    \/ \E data \in NativeTexts : DragBegins(data)
    \/ DragEnds
    \/ Events
    \/ \E i \in 1..MaxDepth : Resume(i)
SpecNative == InitElements /\ [][NextNative]_vars

\* Elements set up by enable_simple_ref_dropping
NextRef ==
    \/ \E e \in Elems, hover \in BOOLEAN, dataType \in DataTypeAttrs :
           enable_simple_ref_dropping(e, hover, dataType)
    \/ \E data \in RefTexts : DragBegins(data)
    \/ DragEnds
    \/ Events
    \/ \E i \in 1..MaxDepth : Resume(i)
SpecRef == InitElements /\ [][NextRef]_vars

\* Elements set up by enable_dragging
NextDrag ==
    \/ \E e \in Elems, startStop \in BOOLEAN : enable_dragging(e, startStop)
    \/ \E e \in Elems : FireDragStart(e)
    \/ FireDragEnd
    \/ Events
SpecDrag == InitElements /\ [][NextDrag]_vars

\* Data attributes of dragged elements: none, and those of an item of world
\* actor 1
Datasets ==
    {NoDataset,
     Dataset("1", "mech_weapon", [src |-> "game_actor", a1 |-> "1", a2 |-> Absent])}

\* Elements set up by enable_simple_ref_dragging, among elements set up by
\* enable_dragging, enable_dropping and its wrappers
NextRefDrag ==
    \/ \E e \in Elems, dataset \in Datasets : enable_simple_ref_dragging(e, dataset, FALSE)
    \/ \E e \in Elems : enable_dragging(e, FALSE)
    \/ \E e \in Elems : enable_dropping(e, "absent", TRUE)
    \/ \E e \in Elems : enable_simple_ref_dropping(e, TRUE, NoAttr)
    \/ \E e \in Elems : enable_native_dropping(e, NoTypes, TRUE, NoAttr)
    \/ \E e \in Elems : FireDragStart(e)
    \/ FireDragEnd
    \/ Events
    \/ \E i \in 1..MaxDepth : Resume(i)
SpecRefDrag == InitElements /\ [][NextRefDrag]_vars

\* ------------------------------------------------------------------------
\* Claims about resolve_native_drop and convert_ref_to_native_drop
\* ------------------------------------------------------------------------
CallDrop == safe_json_parse(call.data)
IsResolveCall == call.op \in {"resolve", "roundtrip"}

\* An item embedded in a document, when the document is an actor that owns it
EmbeddedItemOf(doc, id) ==
    IF doc.kind = "Actor" /\ id \in OwnedItemIds(doc)
    THEN Ent("Item", doc.where, doc.in1, doc.in2, doc.id, id, "mech_weapon")
    ELSE NoEnt

\* The result for an entity that exists, null for one that does not
EntityOrNull(type, entity) ==
    IF entity # NoEnt THEN Resolved(type, entity) ELSE NullResult

\* C1: resolve_native_drop handles every failure by returning null: a payload
\* that does not parse, has a type other than Item/Actor/JournalEntry, or
\* names a pack that does not exist yields null, and no call ever raises: its
\* result is a resolved entity or null.
C1_FailureReturnsNull ==
    IsResolveCall =>
        /\ call.result.type # "TypeError"
        /\ (~JsTruthy(CallDrop) \/ CallDrop.type \notin {"Item", "Actor", "JournalEntry"})
              => call.result = NullResult
        /\ (Truthy(CallDrop.pack) /\ CallDrop.pack \notin GamePacks)
              => call.result = NullResult

\* The location the precedence of C2 picks for an Item payload
C2_ChosenItem(drop) ==
    IF Truthy(drop.pack) /\ Truthy(drop.actorId)
    THEN EmbeddedItemOf(GetDocumentOpt(drop.pack, drop.actorId), drop.id)
    ELSE IF Truthy(drop.sceneId) /\ Truthy(drop.tokenId)
    THEN EmbeddedItemOf(TokenActor(drop.sceneId, drop.tokenId), drop.id)
    ELSE IF Truthy(drop.actorId)
    THEN EmbeddedItemOf(GameActor(drop.actorId), drop.id)
    ELSE IF Truthy(drop.pack)
    THEN GetDocumentOpt(drop.pack, drop.id)
    ELSE GameItem(drop.id)

\* C2: for an Item payload the result is the item at the one location the
\* precedence picks (compendium actor, scene token actor, world actor,
\* compendium, world items), and null when no item is there.
C2_ItemPrecedence ==
    (call.op = "resolve" /\ JsTruthy(CallDrop) /\ CallDrop.type = "Item")
        => call.result = EntityOrNull("Item", C2_ChosenItem(CallDrop))

\* The location C3 names for an Actor payload
C3_ChosenActor(drop) ==
    IF Truthy(drop.pack) THEN GetDocumentOpt(drop.pack, drop.id)
    ELSE IF Truthy(drop.sceneId) /\ Truthy(drop.tokenId)
    THEN TokenActor(drop.sceneId, drop.tokenId)
    ELSE GameActor(drop.id)

\* C3: for an Actor payload the result is the compendium actor when pack is
\* set, the actor of the scene token when sceneId and tokenId are set (and no
\* pack), and the world actor with the payload's id otherwise.
C3_ActorLocation ==
    (call.op = "resolve" /\ JsTruthy(CallDrop) /\ CallDrop.type = "Actor")
        => call.result = EntityOrNull("Actor", C3_ChosenActor(CallDrop))

\* C10: round trip: resolving the JSON of the native drop converted from a
\* ref to an existing item or actor returns the entity the ref designates.
C10_RoundTrip ==
    (call.op = "roundtrip" /\ RefTarget(call.ref) # NoEnt)
        => call.result = Resolved(RefTarget(call.ref).kind, RefTarget(call.ref))

\* ------------------------------------------------------------------------
\* Claims about enable_dropping
\* ------------------------------------------------------------------------
\* How often the listeners that ran last made the call `name`
Count(calls, name) == Cardinality({i \in 1..Len(calls) : calls[i] = name})
Called(name) == Count(last.calls, name) > 0

\* The listeners enable_dropping bound on an element have just run
DroppingRan == last.kind = "deliver" /\ last.b.drop # "none"

\* C4: on an element set up by enable_dropping, drop_handler is called exactly
\* once for a drop event with a non-empty payload, and not at all for a drop
\* event with an empty payload or for a dragover, dragenter or dragleave.
C4_DropHandlerOncePerDrop ==
    DroppingRan =>
        Count(last.calls, "drop_handler")
            = (IF last.etype = "drop" /\ ~NoData(last.data) THEN 1 ELSE 0)

\* a drop with a payload reached an element set up by enable_dropping
C4_Witness ==
    /\ DroppingRan /\ last.etype = "drop" /\ ~NoData(last.data)
    /\ Count(last.calls, "drop_handler") = 1

\* C5: drop_handler is never invoked for an element and payload for which the
\* element's allow_drop returns false.
C5_AllowDropGuardsDrop ==
    (DroppingRan /\ Called("drop_handler")) => DropPermitted(last.b, last.data)

\* C6: hover_handler is called only on a dragenter ("enter") or dragleave
\* ("leave") with a non-empty payload that allow_drop permits (or with no
\* allow_drop), and dragover / dragenter call preventDefault exactly then.
C6_HoverOnlyWhenPermitted ==
    DroppingRan =>
        /\ Called("hover_enter") =>
              last.etype = "dragenter" /\ ~NoData(last.data) /\ DropPermitted(last.b, last.data)
        /\ Called("hover_leave") =>
              last.etype = "dragleave" /\ ~NoData(last.data) /\ DropPermitted(last.b, last.data)
        /\ last.etype \in {"dragover", "dragenter"} =>
              (Called("preventDefault") <=> (~NoData(last.data) /\ DropPermitted(last.b, last.data)))

\* the pointer left an element whose hover_handler was told so
C6_Witness ==
    DroppingRan /\ last.etype = "dragleave" /\ Called("hover_leave")

\* ------------------------------------------------------------------------
\* Claims about enable_native_dropping, enable_simple_ref_dropping and
\* enable_dragging
\* ------------------------------------------------------------------------
\* `type` is one of the space-separated names a data-type attribute lists
Listed(chars, type) ==
    Includes(<<" ">> \o chars \o <<" ">>, <<" ">> \o Chars(type) \o <<" ">>)

\* The accepted types of C7: those the data-type attribute lists when the
\* element has one, else those in allowed_types, else every type.  A list
\* that names no type is read as the wildcard, as null is.
C7_Accepted(b, type) ==
    IF b.dataType.present
    THEN b.dataType.chars = <<>> \/ Listed(b.dataType.chars, type)
    ELSE IF b.allowed.given
    THEN \/ b.allowed.types = <<>>
         \/ \E i \in 1..Len(b.allowed.types) : b.allowed.types[i] = type
    ELSE TRUE

\* C7: enable_native_dropping calls on_drop if and only if the payload
\* resolves and the entity's type is one of the accepted types (data-type
\* before allowed_types, every type when neither is given).
C7_OnDropIffAccepted ==
    (last.kind = "resume" /\ last.b.drop = "native") =>
        LET resolved == resolve_native_drop(last.data) IN
        Called("on_drop") <=>
            /\ resolved.type \in {"Item", "Actor", "JournalEntry"}
            /\ C7_Accepted(last.b, NativeType(resolved))

\* The drop handler of enable_simple_ref_dropping handles this payload on an
\* element with binding b: it is a ref, and the element has no (non-empty)
\* data-type or one that contains the ref's type
C8_Handles(b, data) ==
    /\ is_ref(safe_json_parse(data))
    /\ ~(AttrTruthy(b.dataType)
         /\ ~Includes(b.dataType.chars, Chars(safe_json_parse(data).type)))

\* C8: on a drop with a payload, the handler of enable_simple_ref_dropping
\* does nothing when it does not handle the payload; otherwise it stops
\* propagation before its await, so that the event reaches no ancestor, and
\* after the await calls on_drop at most once, only if the ref resolved.
C8_RefDropStopsThenResolves ==
    /\ (last.kind = "deliver" /\ last.b.drop = "ref" /\ last.etype = "drop"
          /\ ~NoData(last.data)) =>
            IF C8_Handles(last.b, last.data)
            THEN /\ Called("stopPropagation") /\ ~Called("on_drop")
                 /\ last.spawned = 1
                 /\ last.ended
            ELSE /\ ~Called("stopPropagation") /\ ~Called("on_drop")
                 /\ last.spawned = 0
    /\ (last.kind = "resume" /\ last.b.drop = "ref") =>
            /\ Count(last.calls, "on_drop") <= 1
            /\ Called("on_drop") <=> RefTarget(safe_json_parse(last.data)) # NoEnt
    /\ (\A e \in Elems : bound[e].drop \in {"none", "ref"}) => Len(pending) <= 1

\* a ref was dropped on an element nested in another element that would have
\* handled it too, and the inner element handled it
C8_Witness ==
    /\ last.kind = "deliver" /\ last.b.drop = "ref" /\ last.etype = "drop"
    /\ last.elem > 1
    /\ C8_Handles(last.b, last.data)
    /\ bound[last.elem - 1].drop = "ref" /\ C8_Handles(bound[last.elem - 1], last.data)
    /\ Called("stopPropagation")

\* C9: a dragstart on an element set up by enable_dragging runs the handler
\* of that innermost element only: the payload is set once, from its
\* data_transfer_func, start_stop_func("start") is called for it alone, and
\* the event reaches no element around it.
C9_InnermostDragStartOnly ==
    (last.kind = "deliver" /\ last.etype = "dragstart") =>
        /\ last.b.drag # "none"
        /\ last.ran = {last.elem}
        /\ Count(last.calls, "setData") = 1
        /\ Count(last.calls, "start") = (IF last.b.startStop THEN 1 ELSE 0)
        /\ last.ended
        /\ last.out = DataTransferFunc(last.elem)

\* a drag started on a draggable element nested in a draggable element
C9_Witness ==
    /\ last.kind = "deliver" /\ last.etype = "dragstart"
    /\ last.elem > 1 /\ bound[last.elem - 1].drag # "none" /\ bound[last.elem - 1].startStop
    /\ drag.active /\ drag.src = last.elem /\ drag.data = DataTransferFunc(last.elem)

\* No ref can be rebuilt from an element set up by enable_simple_ref_dragging
C11_NoRef(b) == b.drag = "ref" /\ ~JsTruthy(recreate_ref_from_element(b.dataset))

\* C11: a dragstart handled by enable_simple_ref_dragging sets the payload to
\* the JSON text of the ref rebuilt from the element, or to the empty string
\* when no ref can be rebuilt; and while a drag with that empty payload is
\* under way the listeners of enable_dropping and of its wrappers do nothing:
\* no preventDefault, no hover_handler, no drop_handler, no on_drop.
C11_RefDragPayload ==
    /\ (last.kind = "deliver" /\ last.etype = "dragstart" /\ last.b.drag = "ref") =>
          /\ last.out = (IF C11_NoRef(last.b) THEN EmptyText
                         ELSE JSONstringify(recreate_ref_from_element(last.b.dataset)))
          /\ is_ref(safe_json_parse(last.out)) <=> ~C11_NoRef(last.b)
          /\ drag.active => (drag.src = last.elem /\ drag.data = last.out)
    /\ (drag.active /\ drag.src # 0 /\ C11_NoRef(bound[drag.src])) =>
          /\ drag.data = EmptyText
          /\ pending = <<>>
          /\ last.kind # "resume"
          /\ (last.kind = "deliver" /\ last.etype # "dragstart") =>
                (last.calls = <<>> /\ last.spawned = 0)
          /\ evt.type # "none" => ~evt.prevented

\* an element without data attributes was dragged, and the drag was dropped
\* (the host permitting) on an element set up with a hover handler, nested in
\* another element set up for dropping
C11_Witness ==
    /\ drag.active /\ drag.src # 0 /\ C11_NoRef(bound[drag.src])
    /\ drag.dropped
    /\ last.kind = "deliver" /\ last.etype = "drop"
    /\ last.b.drop # "none" /\ last.b.hover
    /\ last.ran = Elems
    /\ \A e \in Elems : bound[e].drop # "none"

====
